---- MODULE Spec2Model ----
(***************************************************************************)
(* Model of the DIFP simulation core:                                      *)
(*   - DIFPGrid<double> (include/DIFP_Core.hpp): one std::vector buffer    *)
(*     holding six fields, reached through six raw pointers that           *)
(*     rebind_pointers() derives from the buffer's address;                *)
(*   - RK4Solver (rk4_solver.hpp and its implementation): five scratch     *)
(*     grids and step(grid, dt).                                           *)
(*                                                                         *)
(* Addresses are byte addresses (naturals), NULL is 0.  A Real (double) is *)
(* modelled by an exact rational <<n, d>> in lowest terms, d > 0.          *)
(***************************************************************************)
EXTENDS Integers, Sequences, FiniteSets, TLC

(***************************************************************************)
(* Real arithmetic                                                         *)
(***************************************************************************)
RECURSIVE Gcd(_, _)
Gcd(a, b) == IF b = 0 THEN a ELSE Gcd(b, a % b)

Abs(n) == IF n < 0 THEN -n ELSE n

\* The rational n/d (d # 0) in lowest terms with a positive denominator.
Real(n, d) ==
    LET g == Gcd(Abs(n), Abs(d))
        s == IF d < 0 THEN -1 ELSE 1
    IN  <<(s * n) \div g, (s * d) \div g>>

Zero == <<0, 1>>
One  == <<1, 1>>
Two  == <<2, 1>>
Six  == <<6, 1>>
Half == <<1, 2>>

RAdd(a, b) ==
    IF a[1] = 0 THEN b
    ELSE IF b[1] = 0 THEN a
    ELSE LET g == Gcd(a[2], b[2])
         IN  Real(a[1] * (b[2] \div g) + b[1] * (a[2] \div g), (a[2] \div g) * b[2])
RNeg(a)    == <<-a[1], a[2]>>
RSub(a, b) == RAdd(a, RNeg(b))
RMul(a, b) ==
    IF a[1] = 0 \/ b[1] = 0 THEN Zero
    ELSE IF a = One THEN b
    ELSE IF b = One THEN a
    ELSE LET g1 == Gcd(Abs(a[1]), b[2])
             g2 == Gcd(Abs(b[1]), a[2])
         IN  Real((a[1] \div g1) * (b[1] \div g2), (a[2] \div g2) * (b[2] \div g1))
\* b # 0: the model never stores a zero mass (see SeedVal).
RDiv(a, b) == IF b = One THEN a ELSE RMul(a, Real(b[2], b[1]))

(***************************************************************************)
(* Memory layout constants                                                 *)
(***************************************************************************)
NULL == 0
AVX_WIDTH_BYTES == 64
SizeofReal == 8
SIMD_ELEMENTS == AVX_WIDTH_BYTES \div SizeofReal

\* The allocator hands out blocks from disjoint arenas; a block starts at an
\* element-aligned offset inside its arena.
ArenaStride == 64 * AVX_WIDTH_BYTES
NumArenas == 8
Arenas == 1..NumArenas
\* Every residue modulo 64 bytes an element-aligned block can start at.
AllocOffsets == {SizeofReal * k : k \in 0..(SIMD_ELEMENTS - 1)}
AllocBase(arena, off) == arena * ArenaStride + off
ArenaOf(addr) == addr \div ArenaStride

FieldNames == <<"potential", "mass", "vx", "vy", "friction", "pressure">>
Fields == {FieldNames[k] : k \in 1..6}

(***************************************************************************)
(* std::vector<Real>: base address of the owned block (NULL when none),    *)
(* its capacity in elements, and the elements.                             *)
(***************************************************************************)
EmptyVec == [base |-> NULL, cap |-> 0, data |-> <<>>]

\* The elements f[1], ..., f[n] as a sequence value.
Elements(f) == f \o <<>>

\* Op applied to the value of v (v is evaluated once, before Op's body).
With(v, Op(_)) == CHOOSE r \in {Op(x) : x \in {v}} : TRUE

\* raw_memory.resize(n, v) on a vector that owns nothing yet.
VecResize(n, v, base) ==
    IF n = 0 THEN EmptyVec
    ELSE [base |-> base, cap |-> n, data |-> Elements([j \in 1..n |-> v])]

\* vector(const vector&): a block of exactly other.size() elements.
VecCopy(other, base) ==
    IF Len(other.data) = 0 THEN EmptyVec
    ELSE [base |-> base, cap |-> Len(other.data), data |-> other.data]

\* vector::operator=(const vector&): the block is kept when it is large
\* enough, replaced by a new one at `base` otherwise.
VecCopyAssign(this, other, base) ==
    IF Len(other.data) > this.cap
    THEN [base |-> base, cap |-> Len(other.data), data |-> other.data]
    ELSE [this EXCEPT !.data = other.data]

\* Whether the copy assignment above asks the allocator for a block.
VecCopyAssignAllocates(this, other) == Len(other.data) > this.cap

(***************************************************************************)
(* DIFPGrid                                                                *)
(***************************************************************************)
\* std::align(alignment, size, ptr, space): the first aligned address at or
\* after ptr, or NULL when fewer than `size` bytes remain behind it.
StdAlign(alignment, size, ptr, space) ==
    LET aligned == ((ptr + alignment - 1) \div alignment) * alignment
    IN  IF space < size \/ aligned - ptr > space - size THEN NULL ELSE aligned

\* The condition under which rebind_pointers throws std::runtime_error.
AlignFails(g) ==
    /\ Len(g.raw_memory.data) > 0
    /\ StdAlign(AVX_WIDTH_BYTES, SizeofReal, g.raw_memory.base,
                Len(g.raw_memory.data) * SizeofReal) = NULL

NullPointers(g) ==
    [g EXCEPT !.potential = NULL, !.mass = NULL, !.vx = NULL,
              !.vy = NULL, !.friction = NULL, !.pressure = NULL]

rebind_pointers(g) ==
    IF Len(g.raw_memory.data) = 0 THEN NullPointers(g)
    ELSE LET aligned_start == StdAlign(AVX_WIDTH_BYTES, SizeofReal,
                                       g.raw_memory.base,
                                       Len(g.raw_memory.data) * SizeofReal)
             stride == g.padded_size * SizeofReal
         IN  [g EXCEPT !.potential = aligned_start,
                       !.mass      = aligned_start + stride,
                       !.vx        = aligned_start + 2 * stride,
                       !.vy        = aligned_start + 3 * stride,
                       !.friction  = aligned_start + 4 * stride,
                       !.pressure  = aligned_start + 5 * stride]

\* Index into raw_memory of the element at address p.
ElemIndex(g, p) == (p - g.raw_memory.base) \div SizeofReal + 1

\* p[0 .. n) lies inside the elements of g's own raw_memory.
InOwnBuffer(g, p, n) ==
    /\ g.raw_memory.cap > 0
    /\ p >= g.raw_memory.base
    /\ p + n * SizeofReal <= g.raw_memory.base + Len(g.raw_memory.data) * SizeofReal

\* field[i] read through the pointer p.
Load(g, p, i) == g.raw_memory.data[ElemIndex(g, p) + i]

\* std::fill(p, p + n, v) on g's buffer.
Fill(g, p, n, v) ==
    LET first == ElemIndex(g, p)
    IN  [g EXCEPT !.raw_memory.data =
            Elements([j \in DOMAIN @ |->
                         IF j >= first /\ j < first + n THEN v ELSE @[j]])]

PaddedSize(active) ==
    ((active + SIMD_ELEMENTS - 1) \div SIMD_ELEMENTS) * SIMD_ELEMENTS

\* The constructor's two std::fill calls, on the object g built so far.
FillDefaults(g) ==
    With(IF g.mass # NULL THEN Fill(g, g.mass, g.padded_size, One) ELSE g,
         LAMBDA g2 : IF g2.friction # NULL
                     THEN Fill(g2, g2.friction, g2.padded_size, Real(1, 10))
                     ELSE g2)

\* DIFPGrid(w, h), its buffer allocated at `base`.
DIFPGrid(w, h, base) ==
    With([raw_memory  |-> VecResize(PaddedSize(w * h) * 6 + SIMD_ELEMENTS, Zero, base),
          state_bits  |-> Elements([k \in 1..((w * h + 63) \div 64) |-> {}]),
          width       |-> w,
          height      |-> h,
          active_size |-> w * h,
          padded_size |-> PaddedSize(w * h),
          potential |-> NULL, mass |-> NULL, vx |-> NULL,
          vy |-> NULL, friction |-> NULL, pressure |-> NULL],
         LAMBDA g0 : With(rebind_pointers(g0), FillDefaults))

\* DIFPGrid(const DIFPGrid& other), its buffer allocated at `base`.
CopyConstruct(other, base) ==
    With([NullPointers(other) EXCEPT !.raw_memory = VecCopy(other.raw_memory, base)],
         rebind_pointers)

\* DIFPGrid(DIFPGrid&& other): <<the new object, other afterwards>>.
MoveConstruct(other) ==
    <<With(NullPointers(other), rebind_pointers),
      NullPointers([other EXCEPT !.raw_memory = EmptyVec, !.state_bits = <<>>])>>

\* operator=(const DIFPGrid& other), this # &other.
CopyAssign(this, other, base) ==
    With([this EXCEPT !.raw_memory  = VecCopyAssign(this.raw_memory, other.raw_memory, base),
                      !.state_bits  = other.state_bits,
                      !.width       = other.width,
                      !.height      = other.height,
                      !.active_size = other.active_size,
                      !.padded_size = other.padded_size],
         rebind_pointers)

\* operator=(DIFPGrid&& other), this # &other: <<this afterwards, other afterwards>>.
MoveAssign(this, other) ==
    <<With([this EXCEPT !.raw_memory  = other.raw_memory,
                        !.state_bits  = other.state_bits,
                        !.width       = other.width,
                        !.height      = other.height,
                        !.active_size = other.active_size,
                        !.padded_size = other.padded_size],
           rebind_pointers),
      [other EXCEPT !.raw_memory = EmptyVec, !.state_bits = <<>>,
                    !.potential = NULL]>>

get_compute_size(g) == g.padded_size

\* Bit idx of the status vector; a 64-bit word is the set of its set bits.
get_state(g, idx) == (idx % 64) \in g.state_bits[idx \div 64 + 1]

set_state(g, idx, val) ==
    [g EXCEPT !.state_bits[idx \div 64 + 1] =
        IF val THEN @ \cup {idx % 64} ELSE @ \ {idx % 64}]

(***************************************************************************)
(* Bounds of the model                                                     *)
(***************************************************************************)
NumGrids == 2       \* DIFPGrid objects of the lifecycle specification
MaxDim   == 2       \* widths and heights 0..MaxDim of those objects
MaxOps   == 3       \* operations per run of the lifecycle specification

GridIds == 1..NumGrids

\* The object a dead slot holds (never read while dead).
NoGrid ==
    [raw_memory |-> EmptyVec, state_bits |-> <<>>, width |-> 0, height |-> 0,
     active_size |-> 0, padded_size |-> 0,
     potential |-> NULL, mass |-> NULL, vx |-> NULL,
     vy |-> NULL, friction |-> NULL, pressure |-> NULL]

\* Values client code stores through the field pointers.
WriteVals == {Real(5, 1)}

VARIABLES
    objs,        \* lifecycle: GridIds -> DIFPGrid object
    live,        \* lifecycle: the objects whose lifetime has begun and not ended
    last,        \* lifecycle: the latest operation, [op, dst, src]
    fault,       \* lifecycle: rebind_pointers has thrown
    nops,        \* lifecycle: operations so far
    grid,        \* solver: the caller's grid
    solver,      \* solver: the RK4Solver object [k1, k2, k3, k4, temp_state]
    hist,        \* solver: the latest call [op] and the latest step call [pre:
                 \*   the grid before it, dt, before: the scratch shapes before it,
                 \*   stale: the scratch grids held stage values before it]
    ub,          \* solver: a loop of step has indexed outside a buffer
    budget       \* solver: the caller's calls so far [grids, steps, seeded]

gridVars   == <<objs, live, last, fault, nops>>
solverVars == <<grid, solver, hist, ub, budget>>
vars == <<objs, live, last, fault, nops,
          grid, solver, hist, ub, budget>>

\* The lowest arena holding none of the blocks `owned` (their base addresses).
FreeArena(owned) ==
    CHOOSE a \in Arenas :
        /\ a \notin {ArenaOf(b) : b \in owned}
        /\ \A c \in Arenas : c < a => c \in {ArenaOf(b) : b \in owned}

OwnedBases(gs) == {g.raw_memory.base : g \in {x \in gs : x.raw_memory.cap > 0}}

LiveBases == OwnedBases({objs[i] : i \in live})

\* The block operator new returns next, at offset `off` of a free arena.
NewBlock(off) == AllocBase(FreeArena(LiveBases), off)

(***************************************************************************)
(* Lifecycle specification: construction, copy, move, assignment and       *)
(* destruction over NumGrids objects, and client writes through the public *)
(* pointers.                                                               *)
(***************************************************************************)
Done(op, dst, src) ==
    /\ last' = [op |-> op, dst |-> dst, src |-> src]
    /\ nops' = nops + 1

Construct(i, w, h, off) ==
    /\ nops < MaxOps
    /\ i \notin live
    /\ \E g \in {DIFPGrid(w, h, NewBlock(off))} :
           IF AlignFails(g)
           THEN /\ fault' = TRUE
                /\ UNCHANGED <<objs, live>>
           ELSE /\ objs' = [objs EXCEPT ![i] = g]
                /\ live' = live \cup {i}
                /\ fault' = fault
    /\ Done("construct", i, i)
    /\ UNCHANGED solverVars

CopyConstructOp(i, j, off) ==
    /\ nops < MaxOps
    /\ i \notin live
    /\ j \in live
    /\ \E g \in {CopyConstruct(objs[j], NewBlock(off))} :
           IF AlignFails(g)
           THEN /\ fault' = TRUE
                /\ UNCHANGED <<objs, live>>
           ELSE /\ objs' = [objs EXCEPT ![i] = g]
                /\ live' = live \cup {i}
                /\ fault' = fault
    /\ Done("copy_construct", i, j)
    /\ UNCHANGED solverVars

MoveConstructOp(i, j) ==
    /\ nops < MaxOps
    /\ i \notin live
    /\ j \in live
    /\ \E r \in {MoveConstruct(objs[j])} :
           /\ objs' = [objs EXCEPT ![i] = r[1], ![j] = r[2]]
           /\ live' = live \cup {i}
    /\ Done("move_construct", i, j)
    /\ UNCHANGED <<fault>>
    /\ UNCHANGED solverVars

CopyAssignOp(i, j, off) ==
    /\ nops < MaxOps
    /\ i \in live
    /\ j \in live
    /\ IF i = j
       THEN UNCHANGED <<objs, fault>>
       ELSE \E g \in {CopyAssign(objs[i], objs[j],
                                  IF VecCopyAssignAllocates(objs[i].raw_memory,
                                                            objs[j].raw_memory)
                                  THEN NewBlock(off) ELSE NULL)} :
                IF AlignFails(g)
                THEN /\ fault' = TRUE
                     /\ UNCHANGED objs
                ELSE /\ objs' = [objs EXCEPT ![i] = g]
                     /\ fault' = fault
    /\ Done("copy_assign", i, j)
    /\ UNCHANGED <<live>>
    /\ UNCHANGED solverVars

MoveAssignOp(i, j) ==
    /\ nops < MaxOps
    /\ i \in live
    /\ j \in live
    /\ IF i = j
       THEN UNCHANGED objs
       ELSE \E r \in {MoveAssign(objs[i], objs[j])} :
               objs' = [objs EXCEPT ![i] = r[1], ![j] = r[2]]
    /\ Done("move_assign", i, j)
    /\ UNCHANGED <<live, fault>>
    /\ UNCHANGED solverVars

Destroy(i) ==
    /\ nops < MaxOps
    /\ i \in live
    /\ live' = live \ {i}
    /\ objs' = [objs EXCEPT ![i] = NoGrid]
    /\ Done("destroy", i, i)
    /\ UNCHANGED <<fault>>
    /\ UNCHANGED solverVars

\* The live object whose raw_memory elements contain address p.
OwnerOf(p) == {o \in live : InOwnBuffer(objs[o], p, 1)}

\* Client code: objs[i].f[idx] = v.  The store lands in whichever live buffer
\* the pointer leads to; a store through a null or dangling pointer is not
\* modelled.
WriteField(i, f, idx, v) ==
    /\ nops < MaxOps
    /\ i \in live
    /\ objs[i][f] # NULL
    /\ \E o \in OwnerOf(objs[i][f] + idx * SizeofReal) :
           objs' = [objs EXCEPT ![o] = Fill(objs[o], objs[i][f] + idx * SizeofReal, 1, v)]
    /\ Done("write", i, i)
    /\ UNCHANGED <<live, fault>>
    /\ UNCHANGED solverVars

SetState(i, idx, val) ==
    /\ nops < MaxOps
    /\ i \in live
    /\ idx < objs[i].active_size
    /\ idx \div 64 < Len(objs[i].state_bits)
    /\ objs' = [objs EXCEPT ![i] = set_state(objs[i], idx, val)]
    /\ Done("set_state", i, i)
    /\ UNCHANGED <<live, fault>>
    /\ UNCHANGED solverVars

SolverIdle ==
    /\ grid = NoGrid
    /\ solver = <<>>
    /\ hist = <<>>
    /\ ub = FALSE
    /\ budget = <<>>

GridInit ==
    /\ objs = [i \in GridIds |-> NoGrid]
    /\ live = {}
    /\ last = [op |-> "none", dst |-> 0, src |-> 0]
    /\ fault = FALSE
    /\ nops = 0
    /\ SolverIdle

GridNext ==
    \/ \E i \in GridIds, w \in 0..MaxDim, h \in 0..MaxDim, off \in AllocOffsets :
          Construct(i, w, h, off)
    \/ \E i \in GridIds, j \in GridIds, off \in AllocOffsets : CopyConstructOp(i, j, off)
    \/ \E i \in GridIds, j \in GridIds : MoveConstructOp(i, j)
    \/ \E i \in GridIds, j \in GridIds, off \in AllocOffsets : CopyAssignOp(i, j, off)
    \/ \E i \in GridIds, j \in GridIds : MoveAssignOp(i, j)
    \/ \E i \in GridIds : Destroy(i)
    \/ \E i \in GridIds, f \in Fields, v \in WriteVals :
          \E idx \in {0, objs[i].padded_size - 1} :
             idx >= 0 /\ WriteField(i, f, idx, v)
    \/ \E i \in GridIds, val \in BOOLEAN :
          \E idx \in {0, objs[i].active_size - 1} :
             idx >= 0 /\ SetState(i, idx, val)

GridSpec == GridInit /\ [][GridNext]_vars

(***************************************************************************)
(* Claims about the DIFPGrid lifecycle (checked under GridSpec)            *)
(***************************************************************************)
Ptr(g, k) == g[FieldNames[k]]

\* The six field values at index i, read through g's pointers.
Cell(g, i) == [k \in 1..6 |-> Load(g, Ptr(g, k), i)]

\* All six field segments of g lie in g's own raw_memory.
SegmentsOwned(g) == \A k \in 1..6 : InOwnBuffer(g, Ptr(g, k), g.padded_size)

\* C1: every non-null field pointer of every live instance, a moved-from
\* source included, points inside the raw_memory that instance owns now.
C1_PointersIntoOwnBuffer ==
    \A i \in live : \A k \in 1..6 :
        Ptr(objs[i], k) # NULL => InOwnBuffer(objs[i], Ptr(objs[i], k), 0)

\* C2: right after a copy construction or copy assignment from g (whose
\* fields are readable), the copy c has c.field[i] = g.field[i] for the six
\* fields and every i < padded_size, and the same status bits.
C2_CopyPreservesContent ==
    (/\ last.op \in {"copy_construct", "copy_assign"}
     /\ last.dst \in live
     /\ last.dst # last.src
     /\ SegmentsOwned(objs[last.src]))
    => LET c == objs[last.dst]
           g == objs[last.src]
       IN  /\ \A i \in 0..(g.padded_size - 1) : Cell(c, i) = Cell(g, i)
           /\ \A idx \in 0..(g.active_size - 1) :
                 idx \div 64 < Len(g.state_bits)
                     => get_state(c, idx) = get_state(g, idx)

\* C3: for every live instance, source and destination alike, potential is a
\* multiple of 64 bytes and each further pointer is the previous one plus
\* padded_size elements.
C3_AlignedAndStrided ==
    \A i \in live :
        /\ objs[i].potential % AVX_WIDTH_BYTES = 0
        /\ \A k \in 1..5 :
              Ptr(objs[i], k + 1) = Ptr(objs[i], k) + objs[i].padded_size * SizeofReal

\* C4: right after a move construction or move assignment, all six pointers
\* of the source are null and its active_size and padded_size are zero.
C4_MovedFromIsEmpty ==
    (last.op \in {"move_construct", "move_assign"} /\ last.dst # last.src)
    => /\ \A k \in 1..6 : Ptr(objs[last.src], k) = NULL
       /\ objs[last.src].active_size = 0
       /\ objs[last.src].padded_size = 0

\* First and one-past-last byte address of the elements of g's raw_memory.
BufferStart(g) == g.raw_memory.base
BufferEnd(g) == g.raw_memory.base + Len(g.raw_memory.data) * SizeofReal

\* A construction or a copy (from another object) has just completed.
BuiltOrCopied ==
    /\ last.dst \in live
    /\ \/ last.op = "construct"
       \/ last.op \in {"copy_construct", "copy_assign"} /\ last.dst # last.src

\* Every element of the n-element segment at p lies in g's raw_memory (an
\* empty segment behind a null pointer has no element outside it).
SegmentInside(g, p, n) ==
    /\ p # NULL => p >= BufferStart(g) /\ p + n * SizeofReal <= BufferEnd(g)
    /\ \A i \in 0..(n - 1) :
          /\ p + i * SizeofReal >= BufferStart(g)
          /\ p + (i + 1) * SizeofReal <= BufferEnd(g)

\* C12: construction and copying never raise the alignment failure, and the
\* instance they produce has its six segments of padded_size elements
\* entirely inside its own raw_memory (potential >= start of raw_memory,
\* pressure + padded_size <= end of raw_memory).
C12_NoAlignFailureSegmentsInside ==
    /\ ~fault
    /\ BuiltOrCopied =>
          \A k \in 1..6 :
              SegmentInside(objs[last.dst], Ptr(objs[last.dst], k),
                            objs[last.dst].padded_size)

(***************************************************************************)
(* RK4Solver                                                               *)
(***************************************************************************)
ScratchNames == <<"k1", "k2", "k3", "k4", "temp_state">>

\* The blocks the solver's five grids own.
SolverBases(S) == OwnedBases({S[ScratchNames[n]] : n \in 1..5})

\* member = DIFPGrid<double>(w, h): the temporary is built in a fresh block
\* while the member still owns its old one, move-assigned, and destroyed.
Reassign(S, name, g, off, callerBases) ==
    With(DIFPGrid(g.width, g.height,
                  AllocBase(FreeArena(callerBases \cup SolverBases(S)), off)),
         LAMBDA tmp : [S EXCEPT ![name] = MoveAssign(@, tmp)[1]])

\* The five assignments of ensure_buffers; offs[n] is where the allocator
\* places the n-th block.
ReassignAll(S, g, offs, callerBases) ==
    With(Reassign(S,  "k1", g, offs[1], callerBases), LAMBDA S1 :
    With(Reassign(S1, "k2", g, offs[2], callerBases), LAMBDA S2 :
    With(Reassign(S2, "k3", g, offs[3], callerBases), LAMBDA S3 :
    With(Reassign(S3, "k4", g, offs[4], callerBases), LAMBDA S4 :
         Reassign(S4, "temp_state", g, offs[5], callerBases)))))

\* Mutant: the buffers are allocated on first use only.
ensure_buffers_FirstUseOnly(S, g, offs, callerBases) ==
    IF S.k1.active_size = 0 /\ g.active_size # 0
    THEN ReassignAll(S, g, offs, callerBases)
    ELSE S

\* Mutant: the buffers are reallocated whenever width or height changes.
ensure_buffers_ByShape(S, g, offs, callerBases) ==
    IF S.k1.width # g.width \/ S.k1.height # g.height
    THEN ReassignAll(S, g, offs, callerBases)
    ELSE S

\* ensure_buffers(grid).
ensure_buffers(S, g, offs, callerBases) ==
    IF S.k1.active_size # g.active_size
    THEN ReassignAll(S, g, offs, callerBases)
    ELSE S

\* for (i = 0; i < n; ++i) p[i] = F(i), on g's buffer.
StoreSeg(g, p, n, F(_)) ==
    [g EXCEPT !.raw_memory.data =
        Elements([j \in DOMAIN @ |->
                     IF j >= ElemIndex(g, p) /\ j < ElemIndex(g, p) + n
                     THEN F(j - ElemIndex(g, p)) ELSE @[j]])]

\* compute_physics_derivatives(in, out): out afterwards.
compute_physics_derivatives(in, out) ==
    LET N == get_compute_size(in)
        pot(i)  == Load(in, in.potential, i)
        vx(i)   == Load(in, in.vx, i)
        vy(i)   == Load(in, in.vy, i)
        mass(i) == Load(in, in.mass, i)
        fric(i) == Load(in, in.friction, i)
        force_x(i) == RNeg(pot(i))
        force_y(i) == RNeg(pot(i))
        d_pot(i) == RNeg(RAdd(vx(i), vy(i)))
        d_vx(i)  == RSub(RDiv(force_x(i), mass(i)), RMul(fric(i), vx(i)))
        d_vy(i)  == RSub(RDiv(force_y(i), mass(i)), RMul(fric(i), vy(i)))
    IN  With(StoreSeg(out, out.potential, N, d_pot), LAMBDA o1 :
        With(StoreSeg(o1, o1.vx, N, d_vx), LAMBDA o2 :
             StoreSeg(o2, o2.vy, N, d_vy)))

\* The loop of compute_physics_derivatives stays inside both grids' buffers.
DerivativesInBounds(in, out) ==
    /\ \A f \in {"potential", "vx", "vy", "mass", "friction"} :
          InOwnBuffer(in, in[f], get_compute_size(in))
    /\ \A f \in {"potential", "vx", "vy"} :
          InOwnBuffer(out, out[f], get_compute_size(in))
    /\ get_compute_size(in) <= out.padded_size

\* accumulate_step(state, k, scale, result): result afterwards.
accumulate_step_InPlace(state, k, scale, result) ==
    LET N == get_compute_size(state)
        r_pot(i) == RAdd(Load(result, result.potential, i),
                         RMul(scale, Load(k, k.potential, i)))
        r_vx(i)  == RAdd(Load(result, result.vx, i), RMul(scale, Load(k, k.vx, i)))
    IN  With(StoreSeg(result, result.potential, N, r_pot), LAMBDA r1 :
             StoreSeg(r1, r1.vx, N, r_vx))

accumulate_step(state, k, scale, result) ==
    LET N == get_compute_size(state)
        r_pot(i) == RAdd(Load(state, state.potential, i),
                         RMul(scale, Load(k, k.potential, i)))
        r_vx(i)  == RAdd(Load(state, state.vx, i), RMul(scale, Load(k, k.vx, i)))
    IN  With(StoreSeg(result, result.potential, N, r_pot), LAMBDA r1 :
             StoreSeg(r1, r1.vx, N, r_vx))

\* The loop of accumulate_step stays inside the three grids' buffers.
AccumulateInBounds(state, k, result) ==
    /\ \A f \in {"potential", "vx"} :
          /\ InOwnBuffer(state, state[f], get_compute_size(state))
          /\ InOwnBuffer(k, k[f], get_compute_size(state))
          /\ InOwnBuffer(result, result[f], get_compute_size(state))
    /\ get_compute_size(state) <= result.padded_size

\* k1 + 2*k2 + 2*k3 + k4 at index i of field f.
StageSum(S, f, i) ==
    RAdd(RAdd(Load(S.k1, S.k1[f], i), RMul(Two, Load(S.k2, S.k2[f], i))),
         RAdd(RMul(Two, Load(S.k3, S.k3[f], i)), Load(S.k4, S.k4[f], i)))

\* Mutant: an Euler update from the first stage only.
FinalUpdate_FirstStage(g, S, dt) ==
    LET N == get_compute_size(g)
        pot(i) == RAdd(Load(g, g.potential, i), RMul(dt, Load(S.k1, S.k1.potential, i)))
        vx(i)  == RAdd(Load(g, g.vx, i), RMul(dt, Load(S.k1, S.k1.vx, i)))
    IN  With(StoreSeg(g, g.potential, N, pot), LAMBDA g1 :
             StoreSeg(g1, g1.vx, N, vx))

\* Mutant: the update is applied to mass as well.
FinalUpdate_WithMass(g, S, dt) ==
    LET N == get_compute_size(g)
        dt_6 == RDiv(dt, Six)
        upd(f, i) == RAdd(Load(g, g[f], i), RMul(dt_6, StageSum(S, f, i)))
        pot(i)  == upd("potential", i)
        vx(i)   == upd("vx", i)
        mass(i) == upd("mass", i)
    IN  With(StoreSeg(g, g.potential, N, pot), LAMBDA g1 :
        With(StoreSeg(g1, g1.vx, N, vx), LAMBDA g2 :
             StoreSeg(g2, g2.mass, N, mass)))

\* The final loop of step: grid afterwards.
FinalUpdate(g, S, dt) ==
    LET N == get_compute_size(g)
        dt_6 == RDiv(dt, Six)
        pot(i) == RAdd(Load(g, g.potential, i), RMul(dt_6, StageSum(S, "potential", i)))
        vx(i)  == RAdd(Load(g, g.vx, i), RMul(dt_6, StageSum(S, "vx", i)))
    IN  With(StoreSeg(g, g.potential, N, pot), LAMBDA g1 :
             StoreSeg(g1, g1.vx, N, vx))

\* The body of step(grid, dt) after ensure_buffers: <<solver, grid>> afterwards.
Stages(S, g, dt) ==
    With(compute_physics_derivatives(g, S.k1), LAMBDA K1 :
    With(accumulate_step(g, K1, RMul(dt, Half), S.temp_state), LAMBDA T1 :
    With(compute_physics_derivatives(T1, S.k2), LAMBDA K2 :
    With(accumulate_step(g, K2, RMul(dt, Half), T1), LAMBDA T2 :
    With(compute_physics_derivatives(T2, S.k3), LAMBDA K3 :
    With(accumulate_step(g, K3, dt, T2), LAMBDA T3 :
    With(compute_physics_derivatives(T3, S.k4), LAMBDA K4 :
    With([k1 |-> K1, k2 |-> K2, k3 |-> K3, k4 |-> K4, temp_state |-> T3],
         LAMBDA S2 : <<S2, FinalUpdate(g, S2, dt)>>))))))))

\* Every loop of step stays inside the buffers it indexes.  The kernels move
\* no pointer, so the layout after ensure_buffers decides it.
StepInBounds(S, g) ==
    /\ \A n \in 1..4 :
          /\ DerivativesInBounds(g, S[ScratchNames[n]])
          /\ DerivativesInBounds(S.temp_state, S[ScratchNames[n]])
          /\ AccumulateInBounds(g, S[ScratchNames[n]], S.temp_state)
    /\ \A f \in {"potential", "vx"} : InOwnBuffer(g, g[f], get_compute_size(g))

\* RK4Solver::step(grid, dt): <<solver, grid, undefined behaviour>> afterwards.
step(S, g, dt, offs, callerBases) ==
    With(ensure_buffers(S, g, offs, callerBases), LAMBDA S1 :
         IF StepInBounds(S1, g)
         THEN With(Stages(S1, g, dt), LAMBDA r : <<r[1], r[2], FALSE>>)
         ELSE <<S1, g, TRUE>>)

\* RK4Solver(): k1(0,0), k2(0,0), k3(0,0), k4(0,0), temp_state(0,0).
RK4Solver(offs) ==
    [k1 |-> DIFPGrid(0, 0, AllocBase(1, offs[1])),
     k2 |-> DIFPGrid(0, 0, AllocBase(2, offs[2])),
     k3 |-> DIFPGrid(0, 0, AllocBase(3, offs[3])),
     k4 |-> DIFPGrid(0, 0, AllocBase(4, offs[4])),
     temp_state |-> DIFPGrid(0, 0, AllocBase(5, offs[5]))]

(***************************************************************************)
(* Solver specification: one RK4Solver, a caller that builds grids, seeds  *)
(* one cell of a grid through a field pointer and calls step.              *)
(***************************************************************************)
MaxGrids  == 2      \* grids the caller builds
MaxSteps  == 2      \* step calls

\* (width, height) of the caller's grids.
GridShapes == {<<0, 0>>, <<1, 2>>, <<2, 1>>, <<4, 4>>}

\* Time increments.
DtVals == {Zero, Half}

\* The fields the caller seeds, and the value it stores there.
SeedFields == {"potential", "vx", "vy", "mass"}
SeedVal(f) ==
    CASE f = "potential" -> Real(10, 1)
      [] f = "vx"        -> One
      [] f = "vy"        -> One
      [] f = "mass"      -> Two

\* Where in its arena the allocator places each block of this specification:
\* the five blocks of the solver, then the caller's grid.  (The lifecycle
\* specification explores every offset.)
ScratchOffsets == <<8, 16, 24, 32, 56>>
CallerOffset == 5 * SizeofReal

CallerBases == OwnedBases({grid})

\* The model steps a grid only while its values are short rationals: the
\* arithmetic is exact, and every stage multiplies the denominators.
DenLimit == 100
Representable(g) ==
    \A j \in DOMAIN g.raw_memory.data :
        /\ g.raw_memory.data[j][2] <= DenLimit
        /\ Abs(g.raw_memory.data[j][1]) <= DenLimit

\* <<width, height, active_size>> of the solver's five grids.
Shapes(S) ==
    [n \in 1..5 |-> <<S[ScratchNames[n]].width, S[ScratchNames[n]].height,
                      S[ScratchNames[n]].active_size>>]

\* Some scratch grid holds a non-zero value stored by the loops of a step.
HoldsStageValues(S) ==
    \E n \in 1..5 : \E f \in {"potential", "vx", "vy"} :
        \E i \in 0..(get_compute_size(S[ScratchNames[n]]) - 1) :
            Load(S[ScratchNames[n]], S[ScratchNames[n]][f], i) # Zero

\* Caller code: DIFPGrid<double> grid(w, h), replacing the grid it had.
NewGrid(shape) ==
    /\ budget.grids < MaxGrids
    /\ grid' = DIFPGrid(shape[1], shape[2],
                        AllocBase(FreeArena(CallerBases \cup SolverBases(solver)),
                                  CallerOffset))
    /\ hist' = [hist EXCEPT !.op = "new_grid"]
    /\ budget' = [budget EXCEPT !.grids = @ + 1, !.seeded = FALSE]
    /\ UNCHANGED <<solver, ub>>
    /\ UNCHANGED gridVars

\* Caller code between steps: grid.f[0] = SeedVal(f), once per grid.
SetCell(f) ==
    /\ budget.grids > 0
    /\ ~budget.seeded
    /\ ~ub
    /\ get_compute_size(grid) > 0
    /\ grid' = Fill(grid, grid[f], 1, SeedVal(f))
    /\ hist' = [hist EXCEPT !.op = "write"]
    /\ budget' = [budget EXCEPT !.seeded = TRUE]
    /\ UNCHANGED <<solver, ub>>
    /\ UNCHANGED gridVars

\* Caller code: solver.step(grid, dt).
Step(dt) ==
    /\ budget.grids > 0
    /\ budget.steps < MaxSteps
    /\ ~ub
    /\ Representable(grid)
    /\ \E r \in {step(solver, grid, dt, ScratchOffsets, CallerBases)} :
          /\ solver' = r[1]
          /\ grid' = r[2]
          /\ ub' = r[3]
    /\ hist' = [op |-> "step", pre |-> grid, dt |-> dt, before |-> Shapes(solver),
                stale |-> HoldsStageValues(solver)]
    /\ budget' = [budget EXCEPT !.steps = @ + 1]
    /\ UNCHANGED gridVars

GridIdle ==
    /\ objs = [i \in GridIds |-> NoGrid]
    /\ live = {}
    /\ last = [op |-> "none", dst |-> 0, src |-> 0]
    /\ fault = FALSE
    /\ nops = 0

Init ==
    /\ GridIdle
    /\ grid = NoGrid
    /\ solver = RK4Solver(ScratchOffsets)
    /\ hist = [op |-> "init", pre |-> NoGrid, dt |-> Zero, before |-> Shapes(solver),
               stale |-> FALSE]
    /\ ub = FALSE
    /\ budget = [grids |-> 0, steps |-> 0, seeded |-> FALSE]

Next ==
    \/ \E shape \in GridShapes : NewGrid(shape)
    \/ \E f \in SeedFields : SetCell(f)
    \/ \E dt \in DtVals : Step(dt)

Spec == Init /\ [][Next]_vars

(***************************************************************************)
(* Claims about RK4Solver (checked under Spec)                             *)
(***************************************************************************)
\* field f of g at index i.
FieldAt(g, f, i) == Load(g, g[f], i)

Indices(g) == 0..(get_compute_size(g) - 1)

Scratch(n) == solver[ScratchNames[n]]

\* A step call has just returned.
StepReturned == hist.op = "step"

\* C5: after step, every field at every index is its value before plus
\* (dt/6) * (k1 + 2*k2 + 2*k3 + k4) of that field.
C5_FinalUpdateAllFields ==
    StepReturned =>
        \A f \in Fields : \A i \in Indices(grid) :
            FieldAt(grid, f, i) =
                RAdd(FieldAt(hist.pre, f, i),
                     RMul(RDiv(hist.dt, Six), StageSum(solver, f, i)))

\* The grid before the latest step was a fresh 4x4 grid with potential[0] = 10.
Scenario4x4 ==
    /\ StepReturned
    /\ hist.pre.raw_memory.cap > 0
    /\ hist.pre = Fill(DIFPGrid(4, 4, hist.pre.raw_memory.base),
                       hist.pre.potential, 1, Real(10, 1))

\* vx[0] and vy[0] were zero before the latest step.
ZeroVelocityAt0 ==
    /\ StepReturned
    /\ get_compute_size(hist.pre) > 0
    /\ FieldAt(hist.pre, "vx", 0) = Zero
    /\ FieldAt(hist.pre, "vy", 0) = Zero

\* C6 as claimed: in the 4x4 scenario potential[0] is still 10 after the
\* step, and whenever vx[0] = vy[0] = 0 before the step potential[0] does not
\* change.
C6_PotentialUnchanged ==
    /\ Scenario4x4 => FieldAt(grid, "potential", 0) = Real(10, 1)
    /\ ZeroVelocityAt0 => FieldAt(grid, "potential", 0) = FieldAt(hist.pre, "potential", 0)

\* C6 amended: with vx[0] = vy[0] = 0 before the step only the first stage
\* derivative k1.potential[0] is zero; potential[0] changes by
\* (dt/6) * (2*k2 + 2*k3 + k4).potential[0], and in the 4x4 scenario it is
\* still 10 exactly when dt = 0.
C6_FirstStageOnly ==
    /\ ZeroVelocityAt0 =>
          /\ FieldAt(solver.k1, "potential", 0) = Zero
          /\ FieldAt(grid, "potential", 0) =
                RAdd(FieldAt(hist.pre, "potential", 0),
                     RMul(RDiv(hist.dt, Six),
                          RAdd(RMul(Two, RAdd(FieldAt(solver.k2, "potential", 0),
                                              FieldAt(solver.k3, "potential", 0))),
                               FieldAt(solver.k4, "potential", 0))))
    /\ Scenario4x4 =>
          (FieldAt(grid, "potential", 0) = Real(10, 1) <=> hist.dt = Zero)

C6_Witness == Scenario4x4 /\ hist.dt # Zero

\* The kernel's output for the grid before the latest step is zero everywhere.
ZeroDerivative ==
    /\ StepReturned
    /\ \A f \in {"potential", "vx", "vy"} : \A i \in Indices(hist.pre) :
          FieldAt(solver.k1, f, i) = Zero

C8_ScratchMatchesGrid ==
    StepReturned =>
        /\ ~ub
        /\ \A n \in 1..5 :
              /\ Scratch(n).active_size = grid.active_size
              /\ get_compute_size(Scratch(n)) = get_compute_size(grid)
              /\ SegmentsOwned(Scratch(n))

C8_Witness ==
    /\ StepReturned
    /\ budget.steps = 2
    /\ hist.before[1][3] # 0
    /\ hist.before[1][3] # grid.active_size
    /\ get_compute_size(grid) > 0

\* C9: accumulate_step writes state + scale * k into all six fields of the
\* result; for the last call of a step, temp_state = grid + dt * k3.
C9_AccumulateAllFields ==
    StepReturned =>
        \A f \in Fields : \A i \in Indices(hist.pre) :
            FieldAt(solver.temp_state, f, i) =
                RAdd(FieldAt(hist.pre, f, i), RMul(hist.dt, FieldAt(solver.k3, f, i)))

\* C10 as claimed: when a step returns, the five scratch grids have the
\* width and the height of the grid of that call.
C10_ScratchHasGridShape ==
    StepReturned =>
        \A n \in 1..5 :
            Scratch(n).width = grid.width /\ Scratch(n).height = grid.height

\* C10 amended: when a step returns, width * height of each scratch grid is
\* that of the grid; width and height are the grid's when the scratch
\* active_size differed before the call, and are what they were otherwise.
C10_ScratchShapeFollowsSize ==
    StepReturned =>
        \A n \in 1..5 :
            /\ Scratch(n).width * Scratch(n).height = grid.width * grid.height
            /\ IF hist.before[1][3] # grid.active_size
               THEN Scratch(n).width = grid.width /\ Scratch(n).height = grid.height
               ELSE Scratch(n).width = hist.before[n][1]
                    /\ Scratch(n).height = hist.before[n][2]

C10_Witness ==
    /\ StepReturned
    /\ budget.steps = 2
    /\ hist.before[1][3] = grid.active_size
    /\ solver.k1.width # grid.width
    /\ grid.active_size > 0

\* A solver right after construction.
FreshSolver == RK4Solver(ScratchOffsets)

\* The scratch fields the loops of step store into.
StoredFields(name) ==
    IF name = "temp_state" THEN {"potential", "vx"} ELSE {"potential", "vx", "vy"}

Overwrite(g, fs, v) ==
    [g EXCEPT !.raw_memory.data =
        Elements([j \in DOMAIN @ |->
            IF \E f \in fs : j >= ElemIndex(g, g[f])
                             /\ j < ElemIndex(g, g[f]) + g.padded_size
            THEN v ELSE @[j]])]

\* A solver sized for g whose scratch grids hold v wherever an earlier step
\* would have stored a value.
LeftoverSolver(g, v) ==
    With(ensure_buffers(FreshSolver, g, ScratchOffsets, CallerBases), LAMBDA S :
         [n \in DOMAIN S |-> Overwrite(S[n], StoredFields(n), v)])

\* The grid that step(g, dt) on solver S produces.
Result(S, g, dt) == step(S, g, dt, ScratchOffsets, CallerBases)[2]

\* C11: step is history-independent.  The grid a step produced on the used
\* solver is the grid a freshly constructed solver produces from the same
\* grid and dt, and the one a solver produces whose scratch grids hold
\* arbitrary leftovers of earlier steps; the scratch fields a step reads
\* without storing into them (temp_state.vy, mass, friction) hold the
\* constructor's values at all times.
C11_HistoryIndependent ==
    /\ StepReturned =>
          /\ grid = Result(FreshSolver, hist.pre, hist.dt)
          /\ grid = Result(LeftoverSolver(hist.pre, Real(7, 1)), hist.pre, hist.dt)
    /\ \A i \in 0..(get_compute_size(solver.temp_state) - 1) :
          /\ FieldAt(solver.temp_state, "vy", i) = Zero
          /\ FieldAt(solver.temp_state, "mass", i) = One
          /\ FieldAt(solver.temp_state, "friction", i) = Real(1, 10)

C11_Witness ==
    /\ StepReturned
    /\ budget.steps = 2
    /\ hist.stale
    /\ hist.before[1][3] = grid.active_size
    /\ hist.dt # Zero
    /\ grid # hist.pre

====
